---- MODULE Spec2Model ----
(***************************************************************************)
(* Model of src/app.py: a Streamlit script that estimates a dose rate with *)
(* the inverse-square law.  Streamlit re-executes the whole script, top to *)
(* bottom, after every user interaction; the only value that survives a    *)
(* rerun besides the widgets' own values is st.session_state.dist_aplicada.*)
(*                                                                         *)
(* Two specifications are given:                                           *)
(*   Spec    the session: one action per user interaction, each of which   *)
(*           is the interaction followed by a complete rerun of the script;*)
(*   SpecFn  the pure computations of the script (dose_at_distance, and    *)
(*           the sampling of lines 107-108) applied to drawn arguments.    *)
(***************************************************************************)
EXTENDS Integers, Sequences, FiniteSets, TLC

(***************************************************************************)
(* float64 values.  A finite value is sign * (n/d) * 10^e with n/d in      *)
(* lowest terms and 1 <= |n|/d < 10 (zero is 0/1 * 10^0), so that equal    *)
(* values are equal records.  A result whose decimal exponent leaves the   *)
(* range of a double becomes inf (overflow) or 0 (underflow), and inf and  *)
(* nan propagate as in IEEE 754.  The binary rounding of the mantissa is   *)
(* not modelled: mantissas are exact rationals.                            *)
(***************************************************************************)

\* Largest decimal exponent of a finite double (about 1.8e308).
MaxExp10 == 308

\* Smallest decimal exponent of a non-zero double (about 4.9e-324).
MinExp10 == -324

Abs(i) == IF i < 0 THEN -i ELSE i

Sgn(i) == IF i < 0 THEN -1 ELSE IF i = 0 THEN 0 ELSE 1

RECURSIVE GCD(_, _)
GCD(a, b) == IF b = 0 THEN a ELSE GCD(b, a % b)

Zero == [k |-> "fin", n |-> 0, d |-> 1, e |-> 0]

NaN == [k |-> "nan", n |-> 0, d |-> 1, e |-> 0]

Inf(s) == [k |-> "inf", n |-> s, d |-> 1, e |-> 0]

\* n, d > 0: the record of n/d * 10^e with the mantissa brought into [1, 10).
RECURSIVE NormPos(_, _, _)
NormPos(n, d, e) ==
    LET g  == GCD(n, d)
        n1 == n \div g
        d1 == d \div g
    IN  IF n1 >= 10 * d1 THEN NormPos(n1, 10 * d1, e + 1)
        ELSE IF n1 < d1 THEN NormPos(10 * n1, d1, e - 1)
        ELSE [k |-> "fin", n |-> n1, d |-> d1, e |-> e]

\* The double nearest to n/d * 10^e as far as its range goes (d > 0).
MkFloat(n, d, e) ==
    IF n = 0 THEN Zero
    ELSE LET p == NormPos(Abs(n), d, e)
         IN  IF p.e > MaxExp10 THEN Inf(Sgn(n))
             ELSE IF p.e < MinExp10 THEN Zero
             ELSE [p EXCEPT !.n = Sgn(n) * p.n]

\* The literal n * 10^e, e.g. Dec(1, -6) is 1e-6 and Dec(125, -1) is 12.5.
Dec(n, e) == MkFloat(n, 1, e)

FromInt(i) == MkFloat(i, 1, 0)

IsNaN(a) == a.k = "nan"

IsFinite(a) == a.k = "fin"

\* -1, 0, 1 as a < b, a = b, a > b; neither is nan.
Cmp(a, b) ==
    LET sa == Sgn(a.n)
        sb == Sgn(b.n)
        mag == \* |a| against |b|, both finite and non-zero
            IF a.e # b.e THEN (IF a.e < b.e THEN -1 ELSE 1)
            ELSE Sgn(Abs(a.n) * b.d - Abs(b.n) * a.d)
    IN  IF sa # sb THEN (IF sa < sb THEN -1 ELSE 1)
        ELSE IF sa = 0 THEN 0
        ELSE IF a.k = "inf" /\ b.k = "inf" THEN 0
        ELSE IF a.k = "inf" THEN sa
        ELSE IF b.k = "inf" THEN -sa
        ELSE sa * mag

\* The comparisons of IEEE 754: every comparison with nan is false.
FLt(a, b) == ~IsNaN(a) /\ ~IsNaN(b) /\ Cmp(a, b) < 0

FLe(a, b) == ~IsNaN(a) /\ ~IsNaN(b) /\ Cmp(a, b) <= 0

FGt(a, b) == FLt(b, a)

FGe(a, b) == FLe(b, a)

FMul(a, b) ==
    IF IsNaN(a) \/ IsNaN(b) THEN NaN
    ELSE IF a.k = "inf" \/ b.k = "inf"
         THEN (IF a.n = 0 \/ b.n = 0 THEN NaN ELSE Inf(Sgn(a.n) * Sgn(b.n)))
    ELSE MkFloat(a.n * b.n, a.d * b.d, a.e + b.e)

\* numpy's float64 division: x/0 is inf (nan for 0/0) with a warning, no error.
FDiv(a, b) ==
    IF IsNaN(a) \/ IsNaN(b) THEN NaN
    ELSE IF a.k = "inf" THEN (IF b.k = "inf" THEN NaN
                              ELSE Inf(a.n * (IF b.n < 0 THEN -1 ELSE 1)))
    ELSE IF b.k = "inf" THEN Zero
    ELSE IF b.n = 0 THEN (IF a.n = 0 THEN NaN ELSE Inf(Sgn(a.n)))
    ELSE MkFloat(Sgn(b.n) * a.n * b.d, a.d * Abs(b.n), a.e - b.e)

FNeg(a) == IF a.k = "nan" THEN NaN ELSE [a EXCEPT !.n = -a.n]

RECURSIVE Pow10(_)
Pow10(i) == IF i = 0 THEN 1 ELSE 10 * Pow10(i - 1)

FAdd(a, b) ==
    IF IsNaN(a) \/ IsNaN(b) THEN NaN
    ELSE IF a.k = "inf" THEN (IF b.k = "inf" /\ b.n # a.n THEN NaN ELSE a)
    ELSE IF b.k = "inf" THEN b
    ELSE IF a.n = 0 THEN b
    ELSE IF b.n = 0 THEN a
    ELSE IF a.e >= b.e
         THEN MkFloat(a.n * Pow10(a.e - b.e) * b.d + b.n * a.d, a.d * b.d, b.e)
         ELSE MkFloat(a.n * b.d + b.n * Pow10(b.e - a.e) * a.d, a.d * b.d, a.e)

FSub(a, b) == FAdd(a, FNeg(b))

\* np.maximum: the larger of the two, nan if either is nan.
FMax(a, b) == IF IsNaN(a) \/ IsNaN(b) THEN NaN ELSE IF FLt(a, b) THEN b ELSE a

FSq(a) == FMul(a, a)

(***************************************************************************)
(* The computations of the script.                                         *)
(***************************************************************************)

\* The floor of line 87, 1e-6.
DistFloor == Dec(1, -6)

\* The defaults att=1.0 and op=1.0 of the signature.
AttDefault == FromInt(1)

OpDefault == FromInt(1)

\* dose_at_distance without line 87: the distance is used as given.
dose_without_floor(d_m, D1m, r_ref, att, op) ==
    FMul(FMul(FMul(D1m, FSq(FDiv(r_ref, d_m))), att), op)

\* dose_at_distance with r_ref * d_m for r_ref / d_m.
dose_product(d_m, D1m, r_ref, att, op) ==
    FMul(FMul(FMul(D1m, FSq(FMul(r_ref, FMax(d_m, DistFloor)))), att), op)

\* dose_at_distance without the square.
dose_linear(d_m, D1m, r_ref, att, op) ==
    FMul(FMul(FMul(D1m, FDiv(r_ref, FMax(d_m, DistFloor))), att), op)

\* dose_at_distance for a scalar d_m:
\*   d_m = np.maximum(d_m, 1e-6); return D1m * (r_ref / d_m)**2 * att * op
\* evaluated left to right as Python does.
dose_at_distance(d_m, D1m, r_ref, att, op) ==
    LET d_c == FMax(d_m, DistFloor)
    IN  FMul(FMul(FMul(D1m, FSq(FDiv(r_ref, d_c))), att), op)

\* dose_at_distance(d_m, D1m, r_ref): att and op omitted.
dose_at_distance_3(d_m, D1m, r_ref) ==
    dose_at_distance(d_m, D1m, r_ref, AttDefault, OpDefault)

\* dose_at_distance for an array d_m: numpy applies np.maximum and the
\* arithmetic element by element.
dose_at_distance_arr(d_m, D1m, r_ref, att, op) ==
    [i \in 1..Len(d_m) |-> dose_at_distance(d_m[i], D1m, r_ref, att, op)]

\* np.linspace without its end point: num points of step (stop-start)/num.
linspace_open(start, stop, num) ==
    [i \in 1..num |->
        FAdd(FMul(FromInt(i - 1), FDiv(FSub(stop, start), FromInt(num))), start)]

\* np.linspace(start, stop, num), endpoint=True: step = (stop-start)/(num-1),
\* y = arange(num) * step + start, and y[-1] = stop when num > 1.  With
\* num = 1 there is no step and the one point is start.
linspace(start, stop, num) ==
    LET div   == num - 1
        delta == FSub(stop, start)
        step  == FDiv(delta, FromInt(div))
        y(i)  == IF div > 0 THEN FAdd(FMul(FromInt(i - 1), step), start)
                 ELSE FAdd(FMul(FromInt(i - 1), delta), start)
    IN  [i \in 1..num |-> IF num > 1 /\ i = num THEN stop ELSE y(i)]

(***************************************************************************)
(* The session.  Widgets have no key=, so Streamlit identifies a widget by *)
(* its label and arguments: a number_input called with another min_value   *)
(* or value is a new widget that starts from its value= argument, and the  *)
(* front end's entry for the old one is not read.                          *)
(***************************************************************************)

\* "dist_aplicada" is not in st.session_state.
NoKey == [k |-> "nokey", n |-> 0, d |-> 1, e |-> 0]

\* A name the run did not bind.
Unbound == [k |-> "unbound", n |-> 0, d |-> 1, e |-> 0]

\* No widget of that label is held by the session.
NoWidget == [min_value |-> Unbound, value |-> Unbound, val |-> Unbound]

\* Nothing drawn below the failing call.
NoPlot == [shown |-> FALSE, start |-> Unbound, stop |-> Unbound, num |-> 0,
           x |-> Unbound, y |-> Unbound]

\* dose_1m: min_value=0.0, value=50.0
Dose1mMin == Zero

Dose1mValue == FromInt(50)

\* r0: min_value=0.1, value=1.0
R0Min == Dec(1, -1)

R0Value == FromInt(1)

\* att_factor: slider 0.0 .. 1.0, value=1.0
AttMin == Zero

AttMax == FromInt(1)

AttValue == FromInt(1)

\* fps_factor: slider 0.5 .. 2.0, value=1.0
FpsMin == Dec(5, -1)

FpsMax == FromInt(2)

FpsValue == FromInt(1)

\* st.session_state.dist_aplicada = 1.0
DistAplicadaInit == FromInt(1)

\* A distance input that accepts 0.0.
DistInputMinZero == Zero

\* dist_input: min_value=0.1
DistInputMin == Dec(1, -1)

\* dist_min: min_value=0.1, value=0.5
DistMinMin == Dec(1, -1)

DistMinValue == Dec(5, -1)

\* dist_max: min_value=dist_min + 0.1, value=5.0
DistMaxGap == Dec(1, -1)

DistMaxValue == FromInt(5)

\* num_pts: slider 50 .. 500, value=200, step=10
NumPtsMin == 50

NumPtsMax == 500

NumPtsValue == 200

NumPtsStep == 10

\* st.number_input(min_value=, value=) raises StreamlitAPIException when the
\* default value is below min_value.
number_input_raises(min_value, value) == FLt(value, min_value)

\* The widget st.number_input(min_value=, value=) yields, w being the entry
\* the session holds for that label: w itself when it is this widget, a
\* fresh widget at its default otherwise.  Its val is the value returned.
number_input(min_value, value, w) ==
    IF w.min_value = min_value /\ w.value = value THEN w
    ELSE [min_value |-> min_value, value |-> value, val |-> value]

\* Lines 77-78 without the test of aplicar.
apply_always(pressed, input, applied) == input

\* if aplicar: st.session_state.dist_aplicada = float(dist_input)
apply_button(pressed, input, applied) == IF pressed THEN input ELSE applied

\* The values a user may try to enter; the widgets admit those in range.
DoseChoices == {FromInt(-1), Zero, FromInt(50)}

R0Choices == {Zero, FromInt(1), FromInt(2)}

AttChoices == {Dec(5, -1), FromInt(1), FromInt(2)}

FpsChoices == {Zero, FromInt(1), FromInt(2)}

DistChoices == {Zero, Dec(1, -1), FromInt(2)}

DistMinChoices == {Zero, Dec(5, -1), Dec(49, -1), FromInt(5)}

DistMaxChoices == {FromInt(1), FromInt(5), FromInt(10)}

NumPtsChoices == {40, 50, 55, 200}

VARIABLES dist_aplicada, dose_1m, r0, att_factor, fps_factor, dist_input,
          aplicar, d, D_d, dist_min, dist_max, num_pts, raised, plot, call

vars == <<dist_aplicada, dose_1m, r0, att_factor, fps_factor, dist_input,
          aplicar, d, D_d, dist_min, dist_max, num_pts, raised, plot, call>>

\* No call of the function specification.
NoCall == [fn |-> "none", d_m |-> <<>>, D1m |-> Unbound, r_ref |-> Unbound,
           att |-> Unbound, op |-> Unbound, num |-> 0, grid |-> <<>>, ret |-> <<>>]

\* A session before the script's first run: no session key, no widgets; the
\* front end will report each widget's default.
Init ==
    /\ dist_aplicada = NoKey
    /\ dose_1m = Dose1mValue
    /\ r0 = R0Value
    /\ att_factor = AttValue
    /\ fps_factor = FpsValue
    /\ dist_input = NoWidget
    /\ aplicar = FALSE
    /\ d = Unbound
    /\ D_d = Unbound
    /\ dist_min = DistMinValue
    /\ dist_max = NoWidget
    /\ num_pts = NumPtsValue
    /\ raised = FALSE
    /\ plot = NoPlot
    /\ call = NoCall

\* One execution of the script, lines 1-136, the front end reporting the
\* given widget values and whether the button was pressed.
Rerun(v_dose, v_r0, v_att, v_fps, w_input, pressed, v_min, w_max, v_pts) ==
    LET applied0 == IF dist_aplicada = NoKey THEN DistAplicadaInit
                    ELSE dist_aplicada                              \* 67-68
        input    == number_input(DistInputMin, applied0, w_input)   \* 70-73
        applied1 == apply_button(pressed, input.val, applied0)      \* 77-78
        dose     == dose_at_distance(applied1, v_dose, v_r0, v_att, v_fps)
        max_min  == FAdd(v_min, DistMaxGap)                         \* 104
        max      == number_input(max_min, DistMaxValue, w_max)
    IN  /\ dist_aplicada' = applied1
        /\ dose_1m' = v_dose
        /\ r0' = v_r0
        /\ att_factor' = v_att
        /\ fps_factor' = v_fps
        /\ dist_input' = input
        /\ aplicar' = pressed
        /\ d' = applied1                                            \* 80
        \* st.metric prints d and D_d to two decimals (92-96); the numbers
        \* handed to it are what is kept here.
        /\ D_d' = dose                                              \* 90
        /\ dist_min' = v_min                                        \* 103
        /\ raised' = number_input_raises(max_min, DistMaxValue)
        /\ IF number_input_raises(max_min, DistMaxValue)
           THEN \* The run ends at line 104.  Whether the session then drops
                \* the widgets the run did not reach differs between
                \* Streamlit releases: both outcomes are allowed.
                /\ plot' = NoPlot
                /\ \E dropped \in BOOLEAN :
                      /\ dist_max' = IF dropped THEN NoWidget ELSE w_max
                      /\ num_pts' = IF dropped THEN NumPtsValue ELSE v_pts
           ELSE /\ dist_max' = max
                /\ num_pts' = v_pts                                 \* 105
                /\ plot' = [shown |-> TRUE, start |-> v_min,        \* 107-118
                            stop |-> max.val, num |-> v_pts,
                            x |-> applied1, y |-> dose]
        /\ UNCHANGED call

\* The page is opened: the first run.
FirstRun ==
    /\ dist_aplicada = NoKey
    /\ Rerun(dose_1m, r0, att_factor, fps_factor, dist_input, FALSE,
             dist_min, dist_max, num_pts)

\* The user reruns the script without touching a widget.
RerunScript ==
    /\ dist_aplicada # NoKey
    /\ Rerun(dose_1m, r0, att_factor, fps_factor, dist_input, FALSE,
             dist_min, dist_max, num_pts)

SetDose1m ==
    /\ dist_aplicada # NoKey
    /\ \E v \in DoseChoices :
          /\ FGe(v, Dose1mMin)
          /\ Rerun(v, r0, att_factor, fps_factor, dist_input, FALSE,
                   dist_min, dist_max, num_pts)

SetR0 ==
    /\ dist_aplicada # NoKey
    /\ \E v \in R0Choices :
          /\ FGe(v, R0Min)
          /\ Rerun(dose_1m, v, att_factor, fps_factor, dist_input, FALSE,
                   dist_min, dist_max, num_pts)

SetAttFactor ==
    /\ dist_aplicada # NoKey
    /\ \E v \in AttChoices :
          /\ FGe(v, AttMin) /\ FLe(v, AttMax)
          /\ Rerun(dose_1m, r0, v, fps_factor, dist_input, FALSE,
                   dist_min, dist_max, num_pts)

SetFpsFactor ==
    /\ dist_aplicada # NoKey
    /\ \E v \in FpsChoices :
          /\ FGe(v, FpsMin) /\ FLe(v, FpsMax)
          /\ Rerun(dose_1m, r0, att_factor, v, dist_input, FALSE,
                   dist_min, dist_max, num_pts)

\* The user edits the distance field shown, which is the widget of the last run.
SetDistInput ==
    /\ dist_aplicada # NoKey
    /\ \E v \in DistChoices :
          /\ FGe(v, dist_input.min_value)
          /\ Rerun(dose_1m, r0, att_factor, fps_factor,
                   [dist_input EXCEPT !.val = v], FALSE,
                   dist_min, dist_max, num_pts)

\* The user presses "Aplicar distancia".
PressAplicar ==
    /\ dist_aplicada # NoKey
    /\ Rerun(dose_1m, r0, att_factor, fps_factor, dist_input, TRUE,
             dist_min, dist_max, num_pts)

SetDistMin ==
    /\ dist_aplicada # NoKey
    /\ \E v \in DistMinChoices :
          /\ FGe(v, DistMinMin)
          /\ Rerun(dose_1m, r0, att_factor, fps_factor, dist_input, FALSE,
                   v, dist_max, num_pts)

\* The maximum and the slider are on the page only when the last run got to them.
SetDistMax ==
    /\ dist_aplicada # NoKey
    /\ plot.shown
    /\ \E v \in DistMaxChoices :
          /\ FGe(v, dist_max.min_value)
          /\ Rerun(dose_1m, r0, att_factor, fps_factor, dist_input, FALSE,
                   dist_min, [dist_max EXCEPT !.val = v], num_pts)

SetNumPts ==
    /\ dist_aplicada # NoKey
    /\ plot.shown
    /\ \E v \in NumPtsChoices :
          /\ v >= NumPtsMin /\ v <= NumPtsMax
          /\ (v - NumPtsMin) % NumPtsStep = 0
          /\ Rerun(dose_1m, r0, att_factor, fps_factor, dist_input, FALSE,
                   dist_min, dist_max, v)

Next ==
    \/ FirstRun
    \/ RerunScript
    \/ SetDose1m
    \/ SetR0
    \/ SetAttFactor
    \/ SetFpsFactor
    \/ SetDistInput
    \/ PressAplicar
    \/ SetDistMin
    \/ SetDistMax
    \/ SetNumPts

Spec == Init /\ [][Next]_vars

(***************************************************************************)
(* The computations applied to drawn arguments.  dose_at_distance is a     *)
(* function of the script that takes any numbers; lines 107-108 run only   *)
(* with the values the three range widgets can deliver.  A behaviour is one *)
(* call: the arguments are drawn, the function is applied, the result kept.*)
(***************************************************************************)

\* Longest array handed to dose_at_distance by CallDoseArr.
MaxArr == 2

\* The slider positions drawn for num_pts: NumPtsMin + NumPtsStep * (0..MaxPtsSteps).
MaxPtsSteps == 1

FnDistances == {FromInt(-1), Zero, Dec(1, -7), Dec(1, -6), Dec(5, -1),
                FromInt(1), FromInt(2), Dec(1, 200)}

FnDoses == {FromInt(-1), Zero, FromInt(50), Dec(1, 300)}

FnRefs == {Dec(1, -7), Dec(1, -6), FromInt(1), FromInt(2), Dec(1, 200)}

FnAtts == {Zero, Dec(5, -1), FromInt(1)}

FnOps == {Zero, FromInt(1), FromInt(2)}

ArrDistances == {FromInt(-1), Dec(1, -7), Dec(1, -6), FromInt(1), FromInt(2)}

ArrArgs == UNION {[1..n -> ArrDistances] : n \in 0..MaxArr}

SampleMins == {Dec(1, -1), Dec(5, -1), Dec(49, -1)}

SampleMaxs == {FromInt(1), FromInt(5), FromInt(10)}

SampleNums == {NumPtsMin + NumPtsStep * k : k \in 0..MaxPtsSteps}

Session == <<dist_aplicada, dose_1m, r0, att_factor, fps_factor, dist_input,
             aplicar, d, D_d, dist_min, dist_max, num_pts, raised, plot>>

\* dose_at_distance(d_m, D1m, r_ref, att, op) with a scalar d_m.
CallDose ==
    /\ call = NoCall
    /\ \E d_m \in FnDistances, D1m \in FnDoses, r_ref \in FnRefs,
          att \in FnAtts, op \in FnOps :
          call' = [fn |-> "scalar", d_m |-> <<d_m>>, D1m |-> D1m,
                   r_ref |-> r_ref, att |-> att, op |-> op, num |-> 0,
                   grid |-> <<>>,
                   ret |-> <<dose_at_distance(d_m, D1m, r_ref, att, op)>>]
    /\ UNCHANGED Session

\* dose_at_distance(d_m, D1m, r_ref): att and op left to their defaults.
CallDoseDefault ==
    /\ call = NoCall
    /\ \E d_m \in FnDistances, D1m \in FnDoses, r_ref \in FnRefs :
          call' = [fn |-> "default", d_m |-> <<d_m>>, D1m |-> D1m,
                   r_ref |-> r_ref, att |-> Unbound, op |-> Unbound,
                   num |-> 0, grid |-> <<>>,
                   ret |-> <<dose_at_distance_3(d_m, D1m, r_ref)>>]
    /\ UNCHANGED Session

\* dose_at_distance(d_m, D1m, r_ref, att, op) with an array d_m.
CallDoseArr ==
    /\ call = NoCall
    /\ \E d_m \in ArrArgs, D1m \in FnDoses, r_ref \in FnRefs,
          att \in FnAtts, op \in FnOps :
          call' = [fn |-> "array", d_m |-> d_m, D1m |-> D1m,
                   r_ref |-> r_ref, att |-> att, op |-> op, num |-> 0,
                   grid |-> <<>>,
                   ret |-> dose_at_distance_arr(d_m, D1m, r_ref, att, op)]
    /\ UNCHANGED Session

\* Lines 107-108 with values the widgets of lines 31-52 and 103-105 deliver:
\*   d_grid = np.linspace(dist_min, dist_max, num_pts)
\*   D_grid = dose_at_distance(d_grid, dose_1m, r0, att_factor, fps_factor)
CallSample ==
    /\ call = NoCall
    /\ \E v_min \in SampleMins, v_max \in SampleMaxs, v_pts \in SampleNums,
          v_dose \in {Zero, FromInt(50)}, v_r0 \in {FromInt(1), FromInt(2)},
          v_att \in {Dec(5, -1), FromInt(1)}, v_fps \in {FromInt(1), FromInt(2)} :
          /\ FGe(v_max, FAdd(v_min, DistMaxGap))
          /\ LET d_grid == linspace(v_min, v_max, v_pts)
             IN  call' = [fn |-> "sample", d_m |-> <<v_min, v_max>>,
                          D1m |-> v_dose, r_ref |-> v_r0, att |-> v_att,
                          op |-> v_fps, num |-> v_pts, grid |-> d_grid,
                          ret |-> dose_at_distance_arr(d_grid, v_dose, v_r0,
                                                       v_att, v_fps)]
    /\ UNCHANGED Session

NextFn ==
    \/ CallDose
    \/ CallDoseDefault
    \/ CallDoseArr
    \/ CallSample

SpecFn == Init /\ [][NextFn]_vars

(***************************************************************************)
(* The claims.                                                             *)
(***************************************************************************)

\* C1: the applied distance is set to 1.0 by the first run and is never
\* removed; in every later rerun it becomes the value of the distance input
\* when the button was pressed and keeps its value otherwise, whatever the
\* widgets report.
C1_AppliedOnlyOnPress ==
    [][/\ dist_aplicada = NoKey => dist_aplicada' = FromInt(1)
       /\ dist_aplicada # NoKey =>
             dist_aplicada' = IF aplicar' THEN dist_input'.val
                              ELSE dist_aplicada]_vars

\* C1's case: after a rerun without a press the applied distance is one that
\* was applied earlier, while the distance input and a parameter have moved.
C1_Witness ==
    /\ ~aplicar
    /\ dist_aplicada = FromInt(2)
    /\ dist_input.val = Dec(1, -1)
    /\ dose_1m = Zero
    /\ r0 = FromInt(2)

\* C2: dose_at_distance returns D1m * (r_ref / max(d_m, 1e-6))^2 * att * op,
\* with att = op = 1.0 when omitted; (2, 50, 1, 1, 1) gives 12.5,
\* (1, 50, 1, 0.5, 1) gives 25 and (1, 50, 1, 1, 1) gives 50.
C2_DoseFormula ==
    LET d_m   == call.d_m[1]
        floor == Dec(1, -6)
        one   == FromInt(1)
        ratio == FDiv(call.r_ref, IF FLt(d_m, floor) THEN floor ELSE d_m)
        is(a, b, c, e, f) == /\ d_m = a /\ call.D1m = b /\ call.r_ref = c
                             /\ call.att = e /\ call.op = f
    IN  /\ call.fn = "scalar" =>
              /\ call.ret[1] =
                    FMul(FMul(FMul(call.D1m, FMul(ratio, ratio)), call.att), call.op)
              /\ is(FromInt(2), FromInt(50), one, one, one)
                    => call.ret[1] = Dec(125, -1)
              /\ is(one, FromInt(50), one, Dec(5, -1), one)
                    => call.ret[1] = FromInt(25)
              /\ is(one, FromInt(50), one, one, one)
                    => call.ret[1] = FromInt(50)
        /\ call.fn = "default" =>
              /\ call.ret[1] = FMul(FMul(FMul(call.D1m, FMul(ratio, ratio)), one), one)
              /\ (d_m = FromInt(2) /\ call.D1m = FromInt(50) /\ call.r_ref = one)
                    => call.ret[1] = Dec(125, -1)

\* C2's case: the call dose_at_distance(2.0, 50.0, 1.0, 1.0, 1.0) returned 12.5.
C2_Witness ==
    /\ call.fn = "scalar"
    /\ call.d_m = <<FromInt(2)>>
    /\ call.D1m = FromInt(50)
    /\ call.r_ref = FromInt(1)
    /\ call.att = FromInt(1)
    /\ call.op = FromInt(1)
    /\ call.ret = <<Dec(125, -1)>>

\* C3: for D1m >= 0, r_ref > 0, att >= 0, op >= 0 and every distance, zero
\* and negative ones included, the result of dose_at_distance is finite
\* and >= 0.
C3_FiniteNonNegative ==
    (/\ call.fn = "scalar"
     /\ FGe(call.D1m, Zero) /\ IsFinite(call.D1m)
     /\ FGt(call.r_ref, Zero) /\ IsFinite(call.r_ref)
     /\ FGe(call.att, Zero) /\ IsFinite(call.att)
     /\ FGe(call.op, Zero) /\ IsFinite(call.op)
     /\ IsFinite(call.d_m[1]))
    => /\ IsFinite(call.ret[1])
       /\ FGe(call.ret[1], Zero)

\* C4 as claimed: for every r_ref > 0 and D >= 0,
\* dose_at_distance(r_ref, D, r_ref, 1.0, 1.0) = D.
C4_ReferenceIdentityAnyRef ==
    (/\ call.fn = "scalar"
     /\ call.d_m[1] = call.r_ref
     /\ FGt(call.r_ref, Zero)
     /\ FGe(call.D1m, Zero)
     /\ call.att = FromInt(1)
     /\ call.op = FromInt(1))
    => call.ret[1] = call.D1m

\* C4, amended: for every r_ref >= 1e-6 and D >= 0,
\* dose_at_distance(r_ref, D, r_ref, 1.0, 1.0) = D.
C4_ReferenceIdentity ==
    (/\ call.fn = "scalar"
     /\ call.d_m[1] = call.r_ref
     /\ FGe(call.r_ref, Dec(1, -6))
     /\ FGe(call.D1m, Zero)
     /\ call.att = FromInt(1)
     /\ call.op = FromInt(1))
    => call.ret[1] = call.D1m

\* C4's case: the dose at the reference distance 2 m, unit factors, is the
\* reference dose 50.
C4_Witness ==
    /\ call.fn = "scalar"
    /\ call.d_m = <<FromInt(2)>>
    /\ call.r_ref = FromInt(2)
    /\ call.D1m = FromInt(50)
    /\ call.att = FromInt(1)
    /\ call.op = FromInt(1)
    /\ call.ret = <<FromInt(50)>>

\* C5 as claimed: for fixed parameters (D1m >= 0, r_ref > 0, att >= 0,
\* op >= 0) and all 0 < d1 < d2,
\* dose_at_distance(d1, ...) > dose_at_distance(d2, ...).
C5_StrictlyDecreasing ==
    (/\ call.fn = "array"
     /\ FGe(call.D1m, Zero) /\ FGt(call.r_ref, Zero)
     /\ FGe(call.att, Zero) /\ FGe(call.op, Zero)) =>
        \A i, j \in 1..Len(call.d_m) :
            (FLt(Zero, call.d_m[i]) /\ FLt(call.d_m[i], call.d_m[j]))
                => FGt(call.ret[i], call.ret[j])

\* C5, amended: for fixed parameters (D1m >= 0, r_ref > 0, att >= 0,
\* op >= 0) and all d1 < d2, the dose at d2 is never greater than the dose
\* at d1.
C5_NeverIncreasing ==
    (/\ call.fn = "array"
     /\ FGe(call.D1m, Zero) /\ FGt(call.r_ref, Zero)
     /\ FGe(call.att, Zero) /\ FGe(call.op, Zero)) =>
        \A i, j \in 1..Len(call.d_m) :
            FLt(call.d_m[i], call.d_m[j]) => ~FGt(call.ret[j], call.ret[i])

\* C5's case: the doses at 1 m and at 2 m with the same parameters, 50 and 12.5.
C5_Witness ==
    /\ call.fn = "array"
    /\ call.d_m = <<FromInt(1), FromInt(2)>>
    /\ call.D1m = FromInt(50)
    /\ call.r_ref = FromInt(1)
    /\ call.att = FromInt(1)
    /\ call.op = FromInt(1)
    /\ call.ret = <<FromInt(50), Dec(125, -1)>>

C7_DegenerateDistance ==
    /\ (call.fn = "scalar" /\ FLe(call.d_m[1], Dec(1, -6))) =>
          call.ret[1] = dose_at_distance(Dec(1, -6), call.D1m, call.r_ref,
                                         call.att, call.op)
    /\ call.fn = "array" =>
          /\ Len(call.ret) = Len(call.d_m)
          /\ \A i \in 1..Len(call.d_m) :
                call.ret[i] =
                    LET at == IF FLe(call.d_m[i], Dec(1, -6)) THEN Dec(1, -6)
                              ELSE call.d_m[i]
                        ratio == FDiv(call.r_ref, at)
                    IN  FMul(FMul(FMul(call.D1m, FMul(ratio, ratio)),
                                  call.att), call.op)

\* C7's case: the array (-1, 2) with D1m = 50, r_ref = 1: the first dose is
\* the one at the floor, 50 * (1/1e-6)^2 = 5e13, the second 12.5.
C7_Witness ==
    /\ call.fn = "array"
    /\ call.d_m = <<FromInt(-1), FromInt(2)>>
    /\ call.D1m = FromInt(50)
    /\ call.r_ref = FromInt(1)
    /\ call.att = FromInt(1)
    /\ call.op = FromInt(1)
    /\ call.ret = <<Dec(5, 13), Dec(125, -1)>>

\* C8: after every run the script has not raised and has handed np.linspace
\* a range with min > 0, max > min and a point count in 50..500.
C8_RangeAlwaysValid ==
    dist_aplicada # NoKey =>
        /\ ~raised
        /\ plot.shown
        /\ FGt(plot.start, Zero)
        /\ FGt(plot.stop, plot.start)
        /\ plot.num >= 50 /\ plot.num <= 500

\* C9: after every run the metric and the marker show dose_at_distance at
\* the applied distance, as the run's button handling left it, with the
\* run's parameters.
C9_MetricAndMarkerCurrent ==
    dist_aplicada # NoKey =>
        LET now == dose_at_distance(dist_aplicada, dose_1m, r0, att_factor,
                                    fps_factor)
        IN  /\ d = dist_aplicada
            /\ D_d = now
            /\ plot.shown
            /\ plot.x = dist_aplicada
            /\ plot.y = now

\* C10: the applied distance is at least 0.1, so the headline dose is
\* computed from the distance itself, not from the 1e-6 floor.
C10_AppliedAtLeastTenth ==
    dist_aplicada # NoKey =>
        /\ FGe(dist_aplicada, Dec(1, -1))
        /\ FMax(d, DistFloor) = d
        /\ FGt(d, DistFloor)

\* C10's case: the smallest distance the input admits, 0.1, has been applied.
C10_Witness ==
    /\ aplicar
    /\ dist_aplicada = Dec(1, -1)
    /\ d = Dec(1, -1)

====
